---- MODULE Spec2Model ----
(***************************************************************************)
(* Model of sentry_slack.plugin.SlackPlugin (src/src/sentry_slack/         *)
(* plugin.py): the notify handler, its helpers, and the POSTs it issues.   *)
(*                                                                         *)
(* Text is a sequence of tokens.  A token is a word ("#general"), or one   *)
(* of the characters the code treats specially: the space " ", the tab     *)
(* "\t" and the comma ",".  strip(), strip(' '), split(','), lower() and   *)
(* the substring test work on tokens as the Python methods work on         *)
(* characters.  All text is ASCII, so .encode('utf-8') leaves it as is and *)
(* json.dumps is one-to-one on the payloads; a POST records the payload as *)
(* it was when json.dumps ran.                                             *)
(***************************************************************************)
EXTENDS Integers, Sequences, FiniteSets, TLC

VARIABLES
    pending,   \* notifications the host has still to hand to notify
    calls,     \* one record per finished notify call: input, POSTs, raised
    payload    \* the payload dict as the latest call that built one left it

vars == <<pending, calls, payload>>

\* ---------------------------------------------------------------- bounds
MaxTags == 2
MaxCalls == 3

\* ------------------------------------------------------------------ text
Space == " "
Tab == "\t"
Comma == ","
Whitespace == {Space, Tab}

RECURSIVE LStrip(_, _)
LStrip(s, chars) ==
    IF s # <<>> /\ Head(s) \in chars THEN LStrip(Tail(s), chars) ELSE s

RECURSIVE RStrip(_, _)
RStrip(s, chars) ==
    IF s # <<>> /\ s[Len(s)] \in chars
    THEN RStrip(SubSeq(s, 1, Len(s) - 1), chars)
    ELSE s

\* str.strip(): leading and trailing whitespace removed
Strip(s) == RStrip(LStrip(s, Whitespace), Whitespace)

\* str.strip(' '): leading and trailing spaces removed, nothing else
StripSpaces(s) == RStrip(LStrip(s, {Space}), {Space})

\* str.split(','): never empty, ''.split(',') is ['']
RECURSIVE SplitFrom(_, _)
SplitFrom(s, cur) ==
    IF s = <<>> THEN <<cur>>
    ELSE IF Head(s) = Comma THEN <<cur>> \o SplitFrom(Tail(s), <<>>)
    ELSE SplitFrom(Tail(s), Append(cur, Head(s)))

Split(s) == SplitFrom(s, <<>>)

LowerToken(t) ==
    CASE t = "Env" -> "env"
      [] t = "K" -> "k"
      [] t = "Release" -> "release"
      [] OTHER -> t

\* str.lower()
Lower(s) == [i \in 1..Len(s) |-> LowerToken(s[i])]

\* a in b, for strings
Contains(b, a) ==
    \E i \in 0..(Len(b) - Len(a)) : SubSeq(b, i + 1, i + Len(a)) = a

Range(s) == {s[i] : i \in 1..Len(s)}

RECURSIVE JoinWith(_, _)
JoinWith(sep, parts) ==
    IF parts = <<>> THEN <<>>
    ELSE IF Len(parts) = 1 THEN parts[1]
    ELSE parts[1] \o sep \o JoinWith(sep, Tail(parts))

\* --------------------------------------------------------------- options
\* get_option returns None for an option that was never saved
None == [set |-> FALSE, text |-> <<>>]
Some(s) == [set |-> TRUE, text |-> s]

\* Python truthiness of an optional string
Truthy(o) == o.set /\ o.text # <<>>

\* (o or d)
OrElse(o, d) == IF Truthy(o) THEN o.text ELSE d

get_option(name, project) == project.options[name]

\* ---------------------------------------------------------------- colors
Levels == {"debug", "info", "warning", "error", "fatal"}

LEVEL_TO_COLOR ==
    [l \in Levels |->
        CASE l = "debug" -> <<"cfd3da">>
          [] l = "info" -> <<"2788ce">>
          [] l = "warning" -> <<"f18500">>
          [] l = "error" -> <<"f43f20">>
          [] l = "fatal" -> <<"d20f2a">>]

\* dict.get(key, default)
DictGet(d, key, default) == IF key \in DOMAIN d THEN d[key] ELSE default

color_for_group(group) ==
    <<"#">> \o DictGet(LEVEL_TO_COLOR, group.level, <<"error">>)

\* --------------------------------------------------------------- project
get_project_full_name(project) ==
    IF ~Contains(project.name, project.team_name)
    THEN project.team_name \o <<Space>> \o project.name
    ELSE project.name

AlwaysConfigured(project) == TRUE

is_configured(project) == Truthy(get_option("webhook", project))

\* ------------------------------------------------------------------ tags
\* TagKey.get_standardized_key of the host: a leading "sentry:" is dropped
get_standardized_key(key) ==
    IF key # <<>> /\ Head(key) = "sentry:" THEN Tail(key) ELSE key

\* the (label of key, label of value) pairs of the event's tags, in order;
\* a key or value without a label row stands for itself
get_tags(event, project) ==
    [i \in 1..Len(event.tags) |->
        LET k == event.tags[i][1]
            v == event.tags[i][2]
        IN  <<DictGet(project.key_labels, k, k),
              DictGet(project.value_labels, <<k, v>>, v)>>]

\* None, or the set of trimmed lower-cased names of a comma separated list
get_tag_list(name, project) ==
    LET option == get_option(name, project)
    IN  IF ~Truthy(option)
        THEN [none |-> TRUE, tags |-> {}]
        ELSE [none |-> FALSE,
              tags |-> {Lower(Strip(tag)) : tag \in Range(Split(option.text))}]

\* set(get_tag_list(...) or [])
TagSet(name, project) ==
    LET l == get_tag_list(name, project)
    IN  IF l.none \/ l.tags = {} THEN {} ELSE l.tags

\* a loop in which a key of the include filter is never excluded
IncludeWins(tag_key, included_tags, excluded_tags) ==
    LET key == Lower(tag_key)
        std_key == get_standardized_key(key)
    IN  IF included_tags # {}
        THEN key \notin included_tags /\ std_key \notin included_tags
        ELSE excluded_tags # {} /\ (key \in excluded_tags
                                    \/ std_key \in excluded_tags)

\* the two `continue` tests of the tag loop
TagSkipped(tag_key, included_tags, excluded_tags) ==
    LET key == Lower(tag_key)
        std_key == get_standardized_key(key)
    IN  \/ (included_tags # {} /\ key \notin included_tags
                                /\ std_key \notin included_tags)
        \/ (excluded_tags # {} /\ (key \in excluded_tags
                                    \/ std_key \in excluded_tags))

RECURSIVE TagFields(_, _, _)
TagFields(tags, included_tags, excluded_tags) ==
    IF tags = <<>> THEN <<>>
    ELSE (IF TagSkipped(Head(tags)[1], included_tags, excluded_tags)
          THEN <<>>
          ELSE <<[title |-> Head(tags)[1], value |-> Head(tags)[2],
                  short |-> TRUE]>>)
         \o TagFields(Tail(tags), included_tags, excluded_tags)

\* ---------------------------------------------------------------- fields
CulpritFields(culprit, title) ==
    IF Truthy(culprit) /\ title # culprit.text
    THEN <<[title |-> <<"Culprit">>, value |-> culprit.text, short |-> FALSE]>>
    ELSE <<>>

ProjectFields(project_name) ==
    <<[title |-> <<"Project">>, value |-> project_name, short |-> TRUE]>>

\* absolute_uri(reverse('sentry-edit-project-rule', ...)) of the host
RuleLink(group, project, rule) ==
    <<"http://sentry/", group.organization_slug, "/", project.slug,
      "/rules/", rule.id>>

RuleFields(notification) ==
    LET project == notification.project
        group == notification.group
        rules == [i \in 1..Len(notification.rules) |->
                    <<"<">> \o RuleLink(group, project, notification.rules[i])
                    \o <<Space, "|", Space>> \o notification.rules[i].label
                    \o <<">">>]
    IN  IF get_option("include_rules", project) /\ rules # <<>>
        THEN <<[title |-> <<"Triggered By">>,
                value |-> JoinWith(<<Comma, Space>>, rules),
                short |-> FALSE]>>
        ELSE <<>>

IncludedTagFields(notification) ==
    LET project == notification.project
    IN  IF get_option("include_tags", project)
        THEN TagFields(get_tags(notification.event, project),
                       TagSet("included_tag_keys", project),
                       TagSet("excluded_tag_keys", project))
        ELSE <<>>

\* `fields = []`
NewFields == <<>>

BuildFields(notification) ==
    NewFields
    \o CulpritFields(notification.group.culprit,
                     notification.event.message_short)
    \o ProjectFields(get_project_full_name(notification.project))
    \o RuleFields(notification)
    \o IncludedTagFields(notification)

\* --------------------------------------------------------------- payload
SetKey(dict, key, value) == (key :> value) @@ dict

\* a dict kept from call to call: keys the call does not write survive
CarriedOverPayload(project_name, title, title_link, color, fields) ==
    [parse |-> <<"none">>,
     attachments |->
        <<[fallback |-> <<"[">> \o project_name \o <<"]", Space>> \o title,
           title |-> title,
           title_link |-> title_link,
           color |-> color,
           fields |-> fields]>>] @@ payload

\* `payload = {...}`: a new dict on every call
NewPayload(project_name, title, title_link, color, fields) ==
    [parse |-> <<"none">>,
     attachments |->
        <<[fallback |-> <<"[">> \o project_name \o <<"]", Space>> \o title,
           title |-> title,
           title_link |-> title_link,
           color |-> color,
           fields |-> fields]>>]

Username(project) ==
    Strip(OrElse(get_option("username", project), <<"Sentry">>))

UntrimmedChannel(project) ==
    OrElse(get_option("channel", project), <<>>)

DefaultChannel(project) ==
    Strip(OrElse(get_option("channel", project), <<>>))

WebhookStripped(webhook) == Strip(webhook)

\* webhook.strip(' ')
WebhookUrl(webhook) == StripSpaces(webhook)

\* the payload as it is when delivery starts
BuildPayload(notification) ==
    LET project == notification.project
        group == notification.group
        p0 == NewPayload(get_project_full_name(project),
                         notification.event.message_short,
                         group.url,
                         color_for_group(group),
                         BuildFields(notification))
        p1 == IF Username(project) # <<>>
              THEN SetKey(p0, "username", Username(project)) ELSE p0
        p2 == IF DefaultChannel(project) # <<>>
              THEN SetKey(p1, "channel", DefaultChannel(project)) ELSE p1
        icon_url == get_option("icon_url", project)
    IN  IF Truthy(icon_url) THEN SetKey(p2, "icon_url", icon_url.text) ELSE p2

\* http.safe_urlopen(webhook, method='POST',
\*                   data={'payload': json.dumps(payload)})
Post(webhook, data) == [url |-> webhook, method |-> "POST", payload |-> data]

\* --------------------------------------------------------------- routing
GroupValuesOption(i) ==
    CASE i = 1 -> "group_1_tag_values"
      [] i = 2 -> "group_2_tag_values"
      [] i = 3 -> "group_3_tag_values"

GroupChannelOption(i) ==
    CASE i = 1 -> "group_1_channel"
      [] i = 2 -> "group_2_channel"
      [] i = 3 -> "group_3_channel"

SortOnTagKey(project) ==
    Strip(OrElse(get_option("sort_on_tag_key", project),
                 <<"application_name">>))

SplitTolerated(option) == FALSE

\* option.split(',') raises AttributeError when the option is None
SplitRaises(option) == ~option.set

Groups(project) ==
    [i \in 1..3 |->
        [tag_values |-> Split(get_option(GroupValuesOption(i), project).text),
         channel |-> Strip(OrElse(get_option(GroupChannelOption(i), project),
                                  <<>>))]]

GroupsRaise(project) ==
    \E i \in 1..3 : SplitRaises(get_option(GroupValuesOption(i), project))

\* a scan that takes the first tag whatever its key
FindAnyTag(tags, sort_on_tag_key) ==
    IF tags = <<>> THEN [found |-> FALSE, value |-> <<>>]
    ELSE [found |-> TRUE, value |-> Head(tags)[2]]

\* the for/else over the extracted tags: the first tag whose key is the key
RECURSIVE FindTag(_, _)
FindTag(tags, sort_on_tag_key) ==
    IF tags = <<>> THEN [found |-> FALSE, value |-> <<>>]
    ELSE IF sort_on_tag_key = Head(tags)[1]
    THEN [found |-> TRUE, value |-> Head(tags)[2]]
    ELSE FindTag(Tail(tags), sort_on_tag_key)

\* a loop that stops at the first matching group
RECURSIVE RouteFirstMatch(_, _, _, _, _)
RouteFirstMatch(i, groups, tag_value, webhook, data) ==
    IF i > Len(groups) THEN [posts |-> <<>>, payload |-> data]
    ELSE IF tag_value \in Range(groups[i].tag_values)
    THEN LET routed == SetKey(data, "channel", groups[i].channel)
         IN  [posts |-> <<Post(webhook, routed)>>, payload |-> routed]
    ELSE RouteFirstMatch(i + 1, groups, tag_value, webhook, data)

\* the loop over the groups from group i on: the POSTs it issues and the
\* payload it leaves
RECURSIVE RouteFrom(_, _, _, _, _)
RouteFrom(i, groups, tag_value, webhook, data) ==
    IF i > Len(groups) THEN [posts |-> <<>>, payload |-> data]
    ELSE IF tag_value \in Range(groups[i].tag_values)
    THEN LET routed == SetKey(data, "channel", groups[i].channel)
             rest == RouteFrom(i + 1, groups, tag_value, webhook, routed)
         IN  [posts |-> <<Post(webhook, routed)>> \o rest.posts,
              payload |-> rest.payload]
    ELSE RouteFrom(i + 1, groups, tag_value, webhook, data)

RoutedBeforeRoot(root_posts, routed_posts) == routed_posts \o root_posts

\* program order of the sends of one call
InProgramOrder(root_posts, routed_posts) == root_posts \o routed_posts

\* lines 270-298: what is sent, whether the call raised, the payload left
Deliver(notification, webhook, data) ==
    LET project == notification.project
        root == IF get_option("send_to_root_too", project)
                THEN <<Post(webhook, data)>> ELSE <<>>
        found == FindTag(get_tags(notification.event, project),
                         SortOnTagKey(project))
        routed == RouteFrom(1, Groups(project), found.value, webhook, data)
    IN  IF ~get_option("sort_on_tag", project)
        THEN [posts |-> <<Post(webhook, data)>>, raised |-> FALSE,
              payload |-> data]
        ELSE IF GroupsRaise(project)
        THEN [posts |-> root, raised |-> TRUE, payload |-> data]
        ELSE IF ~found.found
        THEN [posts |-> root, raised |-> FALSE, payload |-> data]
        ELSE [posts |-> InProgramOrder(root, routed.posts), raised |-> FALSE,
              payload |-> routed.payload]

\* SlackPlugin.notify: the outcome of one call
notify(notification) ==
    LET project == notification.project
        webhook == get_option("webhook", project)
    IN  IF ~is_configured(project)
        THEN [posts |-> <<>>, raised |-> FALSE, payload |-> payload]
        ELSE IF ~webhook.set
        \* None.strip(' ') raises, after the payload dict was built
        THEN [posts |-> <<>>, raised |-> TRUE,
              payload |-> NewPayload(get_project_full_name(project),
                                     notification.event.message_short,
                                     notification.group.url,
                                     color_for_group(notification.group),
                                     BuildFields(notification))]
        ELSE Deliver(notification, WebhookUrl(webhook.text),
                     BuildPayload(notification))

\* ---------------------------------------------------------------- inputs
EmptyDict == [x \in {} |-> x]

Hook == <<"https://hook">>
Title == <<"boom">>

DefaultOptions ==
    [webhook |-> Some(<<Space>> \o Hook \o <<Space>>),
     username |-> Some(<<Space, "bot", Space>>),
     icon_url |-> Some(<<"http://icon">>),
     channel |-> Some(<<Space, "#main", Tab>>),
     include_tags |-> TRUE,
     included_tag_keys |-> None,
     excluded_tag_keys |-> None,
     include_rules |-> TRUE,
     sort_on_tag |-> TRUE,
     send_to_root_too |-> TRUE,
     sort_on_tag_key |-> Some(<<Space, "k", Space>>),
     group_1_tag_values |-> Some(<<"v">>),
     group_1_channel |-> Some(<<Space, "#one", Space>>),
     group_2_tag_values |-> Some(<<"w", Comma, Space, "v">>),
     group_2_channel |-> Some(<<"#two">>),
     group_3_tag_values |-> Some(<<"v", Comma, "w">>),
     group_3_channel |-> Some(<<"#three">>)]

Rule1 == [id |-> "1", label |-> <<"first", Space, "seen">>]
Rule2 == [id |-> "2", label |-> <<"regression">>]

Notification(options, tags, key_labels, value_labels, level, culprit, team_name, rules) ==
    [project |-> [options |-> options,
                  name |-> <<"sentry", Space, "backend">>,
                  team_name |-> team_name,
                  slug |-> "backend",
                  key_labels |-> key_labels,
                  value_labels |-> value_labels],
     event |-> [message_short |-> Title, tags |-> tags],
     group |-> [culprit |-> culprit, level |-> level,
                url |-> <<"http://sentry/group/1/">>,
                organization_slug |-> "org"],
     rules |-> rules]

TagSeqs(pairs) == UNION {[1..n -> pairs] : n \in 0..MaxTags}

RoutingTagPairs ==
    {<<<<"application_name">>, <<"v">>>>, <<<<"k">>, <<"v">>>>,
     <<<<"k">>, <<"w">>>>, <<<<"env">>, <<"w">>>>}

\* the options the delivery step reads, for a project with a webhook,
\* against events with and without the routing tag
RoutingOptions ==
    {[DefaultOptions EXCEPT
        !.channel = c, !.sort_on_tag = s,
        !.send_to_root_too = r, !.sort_on_tag_key = k,
        !.group_1_tag_values = v1, !.group_2_tag_values = v2,
        !.group_3_tag_values = v3, !.group_1_channel = c1] :
        c \in {None, DefaultOptions.channel},
        s \in BOOLEAN, r \in BOOLEAN,
        k \in {None, DefaultOptions.sort_on_tag_key},
        v1 \in {None, Some(<<"v">>), Some(<<"w">>)},
        v2 \in {None, DefaultOptions.group_2_tag_values},
        v3 \in {None, Some(<<>>), DefaultOptions.group_3_tag_values},
        c1 \in {None, DefaultOptions.group_1_channel}}

RoutingInputs ==
    {Notification(o, t, EmptyDict, EmptyDict, "error", None, <<"sentry">>,
                  <<Rule1>>) :
        o \in RoutingOptions, t \in TagSeqs(RoutingTagPairs)}

\* the same options for a project without a webhook
UnconfiguredInputs ==
    {Notification([DefaultOptions EXCEPT
                        !.webhook = w, !.sort_on_tag = s,
                        !.send_to_root_too = r, !.group_1_tag_values = v1,
                        !.group_3_tag_values = v3],
                  t, EmptyDict, EmptyDict, "error", None, <<"sentry">>,
                  <<Rule1>>) :
        w \in {None, Some(<<>>)},
        s \in BOOLEAN, r \in BOOLEAN,
        v1 \in {None, Some(<<"v">>)},
        v3 \in {None, Some(<<>>), DefaultOptions.group_3_tag_values},
        t \in TagSeqs(RoutingTagPairs)}

\* tag rows of the host that give a key or a value a label
LabelInputs ==
    {Notification(DefaultOptions, t, kl, vl, "error", None, <<"sentry">>,
                  <<Rule1>>) :
        t \in TagSeqs(RoutingTagPairs),
        kl \in {EmptyDict, <<"env">> :> <<"k">>},
        vl \in {EmptyDict, <<<<"k">>, <<"v">>>> :> <<"w">>}}

\* webhook and channel values around the gate and the two trims
GateInputs ==
    {Notification([DefaultOptions EXCEPT !.webhook = w, !.channel = c,
                        !.sort_on_tag = s, !.send_to_root_too = r],
                  <<<<<<"k">>, <<"w">>>>>>, EmptyDict, EmptyDict, "error",
                  None, <<"sentry">>, <<>>) :
        w \in {None, Some(<<>>), Some(<<Space>>), Some(<<Tab>> \o Hook),
               DefaultOptions.webhook},
        c \in {None, Some(<<>>), Some(<<Space>>), DefaultOptions.channel},
        s \in BOOLEAN, r \in BOOLEAN}

\* level, culprit, team, rules, bot name and icon
FormatInputs ==
    {Notification([DefaultOptions EXCEPT !.include_rules = ir,
                        !.username = u, !.icon_url = ic],
                  <<<<<<"k">>, <<"v">>>>>>, EmptyDict, EmptyDict, l, cu, tn,
                  rs) :
        ir \in BOOLEAN,
        u \in {None, Some(<<Space>>), DefaultOptions.username},
        ic \in {None, DefaultOptions.icon_url},
        l \in Levels \cup {"critical"},
        cu \in {None, Some(<<>>), Some(Title), Some(<<"views.py">>)},
        tn \in {<<"sentry">>, <<"ops">>},
        rs \in {<<>>, <<Rule1>>, <<Rule1, Rule2>>}}

FilterTagPairs ==
    {<<<<"Env">>, <<"v">>>>, <<<<"sentry:", "release">>, <<"w">>>>,
     <<<<"k">>, <<"v">>>>, <<<<"browser">>, <<"w">>>>}

\* the tag switch and the two tag filters
FilterInputs ==
    {Notification([DefaultOptions EXCEPT !.include_tags = it,
                        !.included_tag_keys = inc, !.excluded_tag_keys = exc,
                        !.sort_on_tag = s],
                  t, kl, EmptyDict, "error", None, <<"sentry">>, <<>>) :
        it \in BOOLEAN,
        inc \in {None, Some(<<>>), Some(<<"Env", Comma, Space, "release">>),
                 Some(<<"k">>), Some(<<Comma>>)},
        exc \in {None, Some(<<>>), Some(<<"env">>),
                 Some(<<Space, "K", Space, Comma, "x">>), Some(<<"release">>)},
        s \in BOOLEAN,
        t \in TagSeqs(FilterTagPairs),
        kl \in {EmptyDict, <<"browser">> :> <<"Env">>}}

\* notifications that follow one another: channels set, unset and routed
SeqNotifications ==
    {Notification([DefaultOptions EXCEPT !.webhook = w, !.channel = c,
                        !.sort_on_tag = s],
                  t, EmptyDict, EmptyDict, "error", None, <<"sentry">>,
                  <<>>) :
        w \in {None, DefaultOptions.webhook},
        c \in {None, DefaultOptions.channel},
        s \in BOOLEAN,
        t \in {<<>>, <<<<<<"k">>, <<"v">>>>>>}}

\* ----------------------------------------------------------------- state
\* one notification is handed to the plugin
Init ==
    /\ \/ pending \in {<<n>> : n \in RoutingInputs}
       \/ pending \in {<<n>> : n \in LabelInputs}
       \/ pending \in {<<n>> : n \in UnconfiguredInputs}
       \/ pending \in {<<n>> : n \in GateInputs}
       \/ pending \in {<<n>> : n \in FormatInputs}
       \/ pending \in {<<n>> : n \in FilterInputs}
    /\ calls = <<>>
    /\ payload = EmptyDict

\* MaxCalls notifications are handed to the plugin one after the other
InitSeq ==
    /\ pending \in [1..MaxCalls -> SeqNotifications]
    /\ calls = <<>>
    /\ payload = EmptyDict

\* the host calls notify with the next notification
Notify ==
    /\ pending # <<>>
    /\ LET outcome == notify(Head(pending))
       IN  /\ calls' = Append(calls, [notification |-> Head(pending),
                                      posts |-> outcome.posts,
                                      raised |-> outcome.raised])
           /\ payload' = outcome.payload
    /\ pending' = Tail(pending)

Next == Notify

Spec == Init /\ [][Next]_vars

SpecSeq == InitSeq /\ [][Next]_vars

TypeOK ==
    /\ Len(calls) + Len(pending) \in {1, MaxCalls}
    /\ \A i \in 1..Len(calls) : Len(calls[i].posts) <= 4

\* ------------------------------------------------- vocabulary of the claims
Calls == {calls[i] : i \in 1..Len(calls)}

Opt(call, name) == call.notification.project.options[name]

\* an option is set when it holds a non-empty value
IsSet(option) == option.set /\ option.text # <<>>

\* an option is missing when it was never saved: get_option returns None
Missing(option) == ~option.set

Configured(call) == IsSet(Opt(call, "webhook"))

Trimmed(option) == IF option.set THEN Strip(option.text) ELSE <<>>

HasChannel(post) == "channel" \in DOMAIN post.payload

ChannelIs(post, channel) == HasChannel(post) /\ post.payload.channel = channel

\* the POST carries the default channel option, trimmed; no channel key when
\* that is empty
CarriesDefaultChannel(call, post) ==
    IF Trimmed(Opt(call, "channel")) = <<>>
    THEN ~HasChannel(post)
    ELSE HasChannel(post) /\ post.payload.channel = Trimmed(Opt(call, "channel"))

\* the POST carries the channel of group i
CarriesGroupChannel(call, post, i) ==
    HasChannel(post)
    /\ post.payload.channel = Trimmed(Opt(call, GroupChannelOption(i)))

ExtractedTags(call) ==
    get_tags(call.notification.event, call.notification.project)

RoutingKey(call) ==
    IF IsSet(Opt(call, "sort_on_tag_key"))
    THEN Strip(Opt(call, "sort_on_tag_key").text)
    ELSE <<"application_name">>

RoutingTagPositions(call) ==
    {i \in 1..Len(ExtractedTags(call)) :
        ExtractedTags(call)[i][1] = RoutingKey(call)}

HasRoutingTag(call) == RoutingTagPositions(call) # {}

\* the value of the routing tag: of the first extracted tag with the key
RoutingValue(call) ==
    LET first == CHOOSE i \in RoutingTagPositions(call) :
                    \A j \in RoutingTagPositions(call) : i <= j
    IN  ExtractedTags(call)[first][2]

GroupValuesMissing(call, i) == Missing(Opt(call, GroupValuesOption(i)))

NoGroupValuesMissing(call) == \A i \in 1..3 : ~GroupValuesMissing(call, i)

\* the routing value is one of the comma separated values of group i
InValueList(call, i) ==
    /\ ~GroupValuesMissing(call, i)
    /\ RoutingValue(call) \in Range(Split(Opt(call, GroupValuesOption(i)).text))

\* the matching groups, in group order
MatchingGroups(call) ==
    (IF InValueList(call, 1) THEN <<1>> ELSE <<>>)
    \o (IF InValueList(call, 2) THEN <<2>> ELSE <<>>)
    \o (IF InValueList(call, 3) THEN <<3>> ELSE <<>>)

RootCount(call) == IF Opt(call, "send_to_root_too") THEN 1 ELSE 0

\* the POSTs of a sort_on_tag call that follow the root-too send
RoutedPosts(call) ==
    SubSeq(call.posts, RootCount(call) + 1, Len(call.posts))

\* ----------------------------------------------------------------- C1
\* C1: for a configured project with sort_on_tag disabled, notify issues
\* exactly one POST, and it carries the trimmed default channel (no channel
\* key when that is empty), whatever send_to_root_too, sort_on_tag_key and
\* the three routing groups are.
C1_OnePostToDefaultChannel ==
    \A call \in Calls :
        (Configured(call) /\ ~Opt(call, "sort_on_tag")) =>
            /\ Len(call.posts) = 1
            /\ CarriesDefaultChannel(call, call.posts[1])
            /\ ~call.raised

\* sort_on_tag off with send_to_root_too on, the routing tag present and in
\* group 1's list: one POST, with the trimmed default channel
C1_Witness ==
    \E call \in Calls :
        /\ Configured(call) /\ ~Opt(call, "sort_on_tag")
        /\ Opt(call, "send_to_root_too")
        /\ HasRoutingTag(call) /\ InValueList(call, 1)
        /\ Opt(call, "channel") = DefaultOptions.channel
        /\ Len(call.posts) = 1
        /\ ChannelIs(call.posts[1], <<"#main">>)

\* ----------------------------------------------------------------- C2
\* the root-too send comes first, and a routing value in group 2's list
\* alone yields exactly the root-too POST and then group 2's POST
RootThenGroup2(call) ==
    /\ Len(call.posts) >= 1
    /\ CarriesDefaultChannel(call, call.posts[1])
    /\ (HasRoutingTag(call) /\ MatchingGroups(call) = <<2>>) =>
            /\ Len(call.posts) = 2
            /\ CarriesGroupChannel(call, call.posts[2], 2)

\* C2 as stated: with sort_on_tag and send_to_root_too enabled, the POST
\* with the default channel is issued first, before every routed POST; and
\* when the routing tag's value is in group 2's list and in no other
\* group's list, exactly two POSTs are issued, the first with the default
\* channel and the second with group 2's channel.
C2_AsStated ==
    \A call \in Calls :
        (Opt(call, "sort_on_tag") /\ Opt(call, "send_to_root_too")) =>
            RootThenGroup2(call)

\* C2 amended: for a configured project, with sort_on_tag and
\* send_to_root_too enabled, the POST with the default channel is issued
\* first, before every routed POST; and when, moreover, none of the three
\* group_N_tag_values options is missing (None) and the routing tag's value
\* is in group 2's list only, exactly two POSTs are issued, the first with
\* the default channel and the second with group 2's channel.
C2_RootSendFirst ==
    \A call \in Calls :
        (Configured(call) /\ Opt(call, "sort_on_tag")
            /\ Opt(call, "send_to_root_too")) =>
            /\ Len(call.posts) >= 1
            /\ CarriesDefaultChannel(call, call.posts[1])
            /\ \A j \in 2..Len(call.posts) :
                    \E i \in 1..3 : CarriesGroupChannel(call, call.posts[j], i)
            /\ NoGroupValuesMissing(call) => RootThenGroup2(call)

\* root-too send to "#main", then group 2's send to "#two", nothing else
C2_Witness ==
    \E call \in Calls :
        /\ Configured(call) /\ Opt(call, "sort_on_tag")
        /\ Opt(call, "send_to_root_too") /\ NoGroupValuesMissing(call)
        /\ HasRoutingTag(call) /\ MatchingGroups(call) = <<2>>
        /\ Len(call.posts) = 2
        /\ ChannelIs(call.posts[1], <<"#main">>)
        /\ ChannelIs(call.posts[2], <<"#two">>)

\* ----------------------------------------------------------------- C3
\* one routed POST per matching group, in group order, each with that
\* group's channel
OnePostPerMatchingGroup(call) ==
    /\ Len(RoutedPosts(call)) = Len(MatchingGroups(call))
    /\ \A j \in 1..Len(MatchingGroups(call)) :
            j <= Len(RoutedPosts(call))
            /\ CarriesGroupChannel(call, RoutedPosts(call)[j],
                                   MatchingGroups(call)[j])

\* C3 as stated: with sort_on_tag enabled and the routing tag's value in
\* the value lists of k of the three groups, notify issues exactly k routed
\* POSTs, one per matching group in group order, each with that group's
\* channel, without stopping at the first match.
C3_AsStated ==
    \A call \in Calls :
        (Opt(call, "sort_on_tag") /\ HasRoutingTag(call)) =>
            OnePostPerMatchingGroup(call)

\* C3 amended: the same, for a configured project none of whose three
\* group_N_tag_values options is missing (None).
C3_OnePostPerMatchingGroup ==
    \A call \in Calls :
        (Configured(call) /\ NoGroupValuesMissing(call)
            /\ Opt(call, "sort_on_tag") /\ HasRoutingTag(call)) =>
            OnePostPerMatchingGroup(call) /\ ~call.raised

\* the value is in the lists of groups 1 and 3 and not of group 2: two
\* routed POSTs, to "#one" and then to "#three"
C3_Witness ==
    \E call \in Calls :
        /\ Configured(call) /\ NoGroupValuesMissing(call)
        /\ Opt(call, "sort_on_tag") /\ HasRoutingTag(call)
        /\ MatchingGroups(call) = <<1, 3>>
        /\ Len(RoutedPosts(call)) = 2
        /\ ChannelIs(RoutedPosts(call)[1], <<"#one">>)
        /\ ChannelIs(RoutedPosts(call)[2], <<"#three">>)

\* ----------------------------------------------------------------- C4
\* no routed POST: one POST, to the default channel, with send_to_root_too,
\* none without
OnlyTheRootSend(call) ==
    /\ Len(call.posts) = RootCount(call)
    /\ \A j \in 1..Len(call.posts) : CarriesDefaultChannel(call, call.posts[j])

\* C4 as stated: with sort_on_tag enabled and no extracted tag whose key is
\* the routing key, notify issues no routed POST: one POST in all when
\* send_to_root_too is enabled, none otherwise.
C4_AsStated ==
    \A call \in Calls :
        (Opt(call, "sort_on_tag") /\ ~HasRoutingTag(call)) =>
            OnlyTheRootSend(call)

\* C4 amended: the same, for a configured project.
C4_NoRoutingTagNoRoutedPost ==
    \A call \in Calls :
        (Configured(call) /\ Opt(call, "sort_on_tag")
            /\ ~HasRoutingTag(call)) =>
            OnlyTheRootSend(call)

\* an event with tags, none with the routing key, whose first tag's value
\* is in group 1's list: only the root-too POST goes out
C4_Witness ==
    \E call \in Calls :
        /\ Configured(call) /\ Opt(call, "sort_on_tag")
        /\ Opt(call, "send_to_root_too") /\ NoGroupValuesMissing(call)
        /\ ~HasRoutingTag(call)
        /\ ExtractedTags(call) # <<>>
        /\ ExtractedTags(call)[1][2] \in
                Range(Split(Opt(call, "group_1_tag_values").text))
        /\ Len(call.posts) = 1
        /\ ~call.raised

\* ----------------------------------------------------------------- C5
\* C5: is_configured(project) is true iff the webhook option is set, and
\* when it is false notify issues no POST and raises no error, whatever the
\* notification and the other options are.
C5_UnconfiguredIsNoOp ==
    \A call \in Calls :
        /\ is_configured(call.notification.project) <=> Configured(call)
        /\ ~is_configured(call.notification.project) =>
                (call.posts = <<>> /\ ~call.raised)

\* no webhook, with routing on, send_to_root_too on and a group's values
\* unset: nothing is sent and nothing is raised
C5_Witness ==
    \E call \in Calls :
        /\ ~Opt(call, "webhook").set
        /\ Opt(call, "sort_on_tag") /\ Opt(call, "send_to_root_too")
        /\ GroupValuesMissing(call, 1)
        /\ call.posts = <<>> /\ ~call.raised

\* ----------------------------------------------------------------- C6
\* the color the table gives a level, the color of error for any other
TableColor(level) ==
    <<"#">> \o (IF level \in Levels THEN LEVEL_TO_COLOR[level]
                ELSE LEVEL_TO_COLOR["error"])

\* C6: color_for_group returns '#' and the hex color the table maps the
\* level to, for each of the five levels, and for any other level the color
\* it returns for error; the attachment of every POST carries that color.
C6_AsStated ==
    \A call \in Calls :
        /\ color_for_group(call.notification.group)
                = TableColor(call.notification.group.level)
        /\ \A j \in 1..Len(call.posts) :
                call.posts[j].payload.attachments[1].color
                    = TableColor(call.notification.group.level)

\* ----------------------------------------------------------------- C7
\* the names of a tag filter: the comma separated items, trimmed, lower-cased
FilterNames(option) == {Lower(Strip(item)) : item \in Range(Split(option.text))}

InFilter(tag_key, option) ==
    /\ IsSet(option)
    /\ \/ Lower(tag_key) \in FilterNames(option)
       \/ get_standardized_key(Lower(tag_key)) \in FilterNames(option)

\* the condition C7 gives for a tag to have a field
TagKept(call, tag_key) ==
    /\ Opt(call, "include_tags")
    /\ \/ ~IsSet(Opt(call, "included_tag_keys"))
       \/ InFilter(tag_key, Opt(call, "included_tag_keys"))
    /\ ~InFilter(tag_key, Opt(call, "excluded_tag_keys"))

RECURSIVE KeptTagFields(_, _)
KeptTagFields(call, tags) ==
    IF tags = <<>> THEN <<>>
    ELSE (IF TagKept(call, Head(tags)[1])
          THEN <<[title |-> Head(tags)[1], value |-> Head(tags)[2],
                  short |-> TRUE]>>
          ELSE <<>>)
         \o KeptTagFields(call, Tail(tags))

\* the fields of a payload that are not the Culprit, Project or Triggered By
\* field
RECURSIVE TagFieldsOf(_)
TagFieldsOf(fields) ==
    IF fields = <<>> THEN <<>>
    ELSE (IF Head(fields).title \in
                {<<"Culprit">>, <<"Project">>, <<"Triggered By">>}
          THEN <<>> ELSE <<Head(fields)>>)
         \o TagFieldsOf(Tail(fields))

PayloadTagFields(data) == TagFieldsOf(data.attachments[1].fields)

LatestCall == calls[Len(calls)]

\* C7: the tag fields of the payload a call builds are, in order, the fields
\* of exactly the event tags for which include_tags is enabled and (the
\* included-tag-keys filter is unset or holds the tag's lower-cased or
\* standardized key) and not (the excluded-tag-keys filter is set and holds
\* the tag's lower-cased or standardized key).
C7_TagFieldsFollowFilters ==
    /\ \A call \in Calls : \A j \in 1..Len(call.posts) :
            PayloadTagFields(call.posts[j].payload)
                = KeptTagFields(call, ExtractedTags(call))
    /\ (calls # <<>> /\ Configured(LatestCall)) =>
            PayloadTagFields(payload)
                = KeptTagFields(LatestCall, ExtractedTags(LatestCall))

\* both filters set; one tag is in both and has no field, another is in the
\* include filter only and has one, and the payload was sent
C7_Witness ==
    \E call \in Calls :
        /\ Opt(call, "include_tags")
        /\ call.posts # <<>>
        /\ \E i, j \in 1..Len(ExtractedTags(call)) :
              /\ InFilter(ExtractedTags(call)[i][1], Opt(call, "included_tag_keys"))
              /\ InFilter(ExtractedTags(call)[i][1], Opt(call, "excluded_tag_keys"))
              /\ InFilter(ExtractedTags(call)[j][1], Opt(call, "included_tag_keys"))
              /\ ~InFilter(ExtractedTags(call)[j][1], Opt(call, "excluded_tag_keys"))
              /\ PayloadTagFields(call.posts[1].payload)
                    = <<[title |-> ExtractedTags(call)[j][1],
                         value |-> ExtractedTags(call)[j][2],
                         short |-> TRUE]>>

\* ----------------------------------------------------------------- C8
\* C8: the POSTs of a call, and whether it raises, depend on the call's
\* notification and configuration only: any two calls of a run with equal
\* inputs issue equal POST sequences, whatever calls came before them.
C8_CallsAreIndependent ==
    \A i, j \in 1..Len(calls) :
        calls[i].notification = calls[j].notification =>
            /\ calls[i].posts = calls[j].posts
            /\ calls[i].raised = calls[j].raised

\* a call without a channel, then a call routed to a group's channel, then
\* the first call's input again: the same POST, still without a channel
C8_Witness ==
    /\ Len(calls) = 3
    /\ calls[1].notification = calls[3].notification
    /\ calls[2].notification # calls[1].notification
    /\ Len(calls[1].posts) = 1 /\ ~HasChannel(calls[1].posts[1])
    /\ \E j \in 1..Len(calls[2].posts) : ChannelIs(calls[2].posts[j], <<"#one">>)
    /\ Len(calls[3].posts) = 1 /\ ~HasChannel(calls[3].posts[1])

\* ----------------------------------------------------------------- C9
\* C9 as stated: with sort_on_tag enabled and one of the three
\* group_N_tag_values options unset, notify ends in a runtime failure and
\* issues no routed POST, with or without the routing tag; the root-too
\* send, when enabled, is the one POST issued before the failure.
C9_AsStated ==
    \A call \in Calls :
        (/\ Opt(call, "sort_on_tag")
         /\ \E i \in 1..3 : ~IsSet(Opt(call, GroupValuesOption(i)))) =>
            call.raised /\ OnlyTheRootSend(call)

\* C9 amended: for a configured project, with sort_on_tag enabled and one
\* of the three group_N_tag_values options missing (None; an option saved
\* empty does not fail), notify ends in a runtime failure and issues no
\* routed POST, with or without the routing tag; the root-too send, when
\* enabled, is the one POST issued before the failure.
C9_MissingGroupValuesRaise ==
    \A call \in Calls :
        (Configured(call) /\ Opt(call, "sort_on_tag")
            /\ ~NoGroupValuesMissing(call)) =>
            call.raised /\ OnlyTheRootSend(call)

\* group 2's values unset while the routing tag's value is in group 1's
\* list: the root-too POST went out, then the call failed
C9_Witness ==
    \E call \in Calls :
        /\ Configured(call) /\ Opt(call, "sort_on_tag")
        /\ Opt(call, "send_to_root_too")
        /\ GroupValuesMissing(call, 2)
        /\ HasRoutingTag(call) /\ InValueList(call, 1)
        /\ call.raised
        /\ Len(call.posts) = 1
        /\ ChannelIs(call.posts[1], <<"#main">>)

\* ---------------------------------------------------------------- C10
WithoutChannel(data) == [key \in DOMAIN data \ {"channel"} |-> data[key]]

\* C10: every POST of a call targets the webhook option with its leading
\* and trailing spaces removed, and the payloads of the POSTs of one call
\* are equal in everything but the channel.
C10_OnlyTheChannelDiffers ==
    \A call \in Calls : \A i, j \in 1..Len(call.posts) :
        /\ call.posts[i].url = StripSpaces(Opt(call, "webhook").text)
        /\ call.posts[i].method = "POST"
        /\ WithoutChannel(call.posts[i].payload)
                = WithoutChannel(call.posts[j].payload)
        /\ {"parse", "attachments"} \subseteq DOMAIN call.posts[i].payload

\* a webhook saved with spaces around it, a root-too send and two routed
\* sends, to three different channels
C10_Witness ==
    \E call \in Calls :
        /\ Opt(call, "webhook").text = <<Space>> \o Hook \o <<Space>>
        /\ Len(call.posts) = 3
        /\ call.posts[1].url = Hook
        /\ ChannelIs(call.posts[1], <<"#main">>)
        /\ ChannelIs(call.posts[2], <<"#one">>)
        /\ ChannelIs(call.posts[3], <<"#three">>)
        /\ "username" \in DOMAIN call.posts[3].payload
        /\ "icon_url" \in DOMAIN call.posts[3].payload

====
